---- MODULE Spec2Model ----
(***************************************************************************)
(* Model of src/app.py: a Streamlit script that resolves an API key,       *)
(* lets the user upload PDF files, and for each file extracts the text     *)
(* with PyPDF2 and sends it to the Gemini API.                             *)
(*                                                                         *)
(* Strings that the code only passes around are sequences of string        *)
(* tokens; document text is a sequence of one-character strings so that    *)
(* str.strip() and += are computed as Python computes them.                *)
(*                                                                         *)
(* What a file holds, and how the remote model answers, is the             *)
(* environment's choice at the step that reads it. Locals of a function    *)
(* hold their initial value outside the call; module-level names           *)
(* (pdf_text, analysis) keep their value from one file to the next.        *)
(***************************************************************************)
EXTENDS Naturals, Sequences, FiniteSets

\* ---------------------------------------------------------------- bounds
\* Largest number of files in one upload.
MaxDocs == 2
\* Largest number of pages of one PDF.
MaxPages == 2

\* ------------------------------------------------------- values and inputs
\* A key that is in neither the secrets store nor the environment.
Absent == "<absent>"
\* GOOGLE_API_KEY before line 12 has run.
Unset == "<unset>"
\* No exception / no value yet.
None == "<none>"

\* Values st.secrets may hold for "GOOGLE_API_KEY".
SecretValues == {Absent, "key-from-secrets"}
\* Values the environment may hold for GOOGLE_API_KEY.
EnvironValues == {Absent, "key-from-environment"}

\* Text page.extract_text() may return: nothing (image-only page), white
\* space only, or a letter.
PageTexts == { <<>>, <<" ">>, <<"a">> }
\* A page of a parsed PDF: extract_text() returns text or raises.
Pages == [raises : {FALSE}, text : PageTexts] \cup [raises : {TRUE}, text : {<<>>}]
PageSeqs == UNION { [1..n -> Pages] : n \in 0..MaxPages }
\* What uploaded_file.read() holds: bytes PdfReader can parse into pages, or
\* bytes it rejects.
Docs == [parseable : {TRUE}, pages : PageSeqs] \cup [parseable : {FALSE}, pages : {<<>>}]
NoDoc == [parseable |-> FALSE, pages |-> <<>>]

\* str(e) of the exceptions the libraries raise.
ParseCause == "EOF marker not found"
PageCause == "page content stream is damaged"
ConstructCause == "model could not be constructed"
CallCauses == {"429 quota exceeded"}
BlockedCause == "response.text: the candidate has no parts"

\* ------------------------------------------------------------ pure functions
\* Python truthiness of the str GOOGLE_API_KEY, line 20.
KeyTruthy(k) ==
    k # ""

IsSpace(c) ==
    c \in {" ", "\n", "\t"}

RECURSIVE LStrip(_)
LStrip(s) ==
    IF s = <<>> THEN <<>>
    ELSE IF IsSpace(Head(s)) THEN LStrip(Tail(s))
    ELSE s

RECURSIVE RStrip(_)
RStrip(s) ==
    IF s = <<>> THEN <<>>
    ELSE IF IsSpace(s[Len(s)]) THEN RStrip(SubSeq(s, 1, Len(s) - 1))
    ELSE s

\* str.strip(): leading and trailing white space removed.
Strip(s) ==
    RStrip(LStrip(s))

\* Variant of HasText without strip().
HasTextUnstripped(s) ==
    Len(s) > 0

\* Line 147: `if pdf_text.strip()`.
HasText(s) ==
    Len(Strip(s)) > 0

\* Variant of Offline in which the key is never taken to be missing.
OfflineNever(k) ==
    FALSE

\* Line 38: `if not GOOGLE_API_KEY`.
Offline(k) ==
    k = ""

\* Variant of IterItem that walks the list from its end.
IterItemReversed(files, k) ==
    files[Len(files) + 1 - k]

\* Line 139: the k-th item the for loop takes.
IterItem(files, k) ==
    files[k]

\* Variant of SpinnerExit that leaves the spinner entered.
SpinnerExitLeaking(sp, f) ==
    sp

\* Line 143: leaving the with block.
SpinnerExit(sp, f) ==
    sp \ {f}

\* Lines 12-18: the secrets store is asked; KeyError/AttributeError gives "".
\* The environment is not read.
ResolveKey(sec, env) ==
    IF sec # Absent THEN sec ELSE ""

\* Lines 40-52: the simulated response.
Placeholder ==
    << "**", "Executive Summary", ":** This is a simulated executive summary.",
       "---",
       "**", "In-depth Analysis", ":** This is a simulated in-depth analysis." >>

\* Lines 56-71: the prompt, the text between two --- lines.
BuildPrompt(pdf_text_arg) ==
    << "Based on the following text ... 1. **Executive Summary:** ... 2. **In-depth Analysis:** ... Here is the document text: ---" >>
    \o pdf_text_arg \o << "---" >>

ErrorPrefix == "An error occurred while calling the Gemini API: "

\* Variant of ErrorMessage that drops str(e).
ErrorMessageWithoutCause(e) ==
    << ErrorPrefix >>

\* Line 75.
ErrorMessage(e) ==
    << ErrorPrefix, e >>

\* Line 96.
ReadErrorMessage(e) ==
    << "Error reading PDF file: ", e >>

\* Texts the remote model may answer with: any text at all, so also one that
\* reads like the message of line 75.
ResponseTexts ==
    { << "**Executive Summary:** generated. **In-depth Analysis:** generated." >>,
      ErrorMessage("429 quota exceeded") }
\* The response object of generate_content: .text returns a text or raises.
Responses == [blocked : {FALSE}, text : ResponseTexts] \cup [blocked : {TRUE}, text : {<<>>}]
NoResponse == [blocked |-> TRUE, text |-> <<>>]

\* ---------------------------------------------------------------- state
VARIABLES
    secrets,         \* st.secrets["GOOGLE_API_KEY"], or Absent
    environ,         \* os.environ GOOGLE_API_KEY, or Absent
    GOOGLE_API_KEY,  \* module global, lines 14/18
    configured,      \* genai.configure was called, line 21
    uploaded_files,  \* the list st.file_uploader returned, line 131
    pos,             \* how many items the for loop of line 139 has taken
    uploaded_file,   \* the loop variable, line 139
    pc,              \* position of the script
    spinner,         \* the st.spinner contexts that are entered, line 143
    text,            \* local of extract_text_from_pdf, line 88
    pdf_pages,       \* pages of pdf_reader not yet iterated, line 93
    pdf_text,        \* line 145
    analyze_arg,     \* parameter pdf_text of analyze_pdf_with_gemini, line 28
    prompt,          \* line 56
    response,        \* line 72
    analysis,        \* line 149
    ui,              \* what was rendered, in order: [doc, kind, text]
    \* history of the run
    file_doc,        \* what the current file's read() held
    answered,        \* the text the remote model answered for the current file
    started,         \* files whose iteration began
    completed,       \* files whose iteration ended
    extractions,     \* per file: calls of PdfReader on its bytes
    analyze_calls,   \* per file: calls of analyze_pdf_with_gemini
    remote_calls,    \* per file: calls of model.generate_content
    extract_error,   \* per file: str(e) caught at line 95, or None
    call_outcome     \* per file: None, "success", or the str(e) caught at line 74

vars == << secrets, environ, GOOGLE_API_KEY, configured, uploaded_files, pos,
           uploaded_file, pc, spinner, text, pdf_pages, pdf_text, analyze_arg,
           prompt, response, analysis, ui, file_doc, answered, started,
           completed, extractions, analyze_calls, remote_calls, extract_error,
           call_outcome >>

Files == 1..Len(uploaded_files)

Event(d, k, t) ==
    [doc |-> d, kind |-> k, text |-> t]

Init ==
    /\ secrets \in SecretValues
    /\ environ \in EnvironValues
    /\ GOOGLE_API_KEY = Unset
    /\ configured = FALSE
    /\ uploaded_files \in { [i \in 1..n |-> i] : n \in 0..MaxDocs }
    /\ pos = 0
    /\ uploaded_file = 0
    /\ pc = "start"
    /\ spinner = {}
    /\ text = <<>>
    /\ pdf_pages = <<>>
    /\ pdf_text = <<>>
    /\ analyze_arg = <<>>
    /\ prompt = <<>>
    /\ response = NoResponse
    /\ analysis = <<>>
    /\ ui = <<>>
    /\ file_doc = NoDoc
    /\ answered = <<>>
    /\ started = {}
    /\ completed = {}
    /\ extractions = [f \in Files |-> 0]
    /\ analyze_calls = [f \in Files |-> 0]
    /\ remote_calls = [f \in Files |-> 0]
    /\ extract_error = [f \in Files |-> None]
    /\ call_outcome = [f \in Files |-> None]

\* Variant of AssignPdfText with += in place of =.
AppendPdfText(old, returned) ==
    old \o returned

\* Line 145: `pdf_text = extract_text_from_pdf(uploaded_file)`.
AssignPdfText(old, returned) ==
    returned

Bump(f, d) ==
    [f EXCEPT ![d] = @ + 1]

\* ---------------------------------------------------------------- startup
\* Lines 12-18.
ResolveCredential ==
    /\ pc = "start"
    /\ GOOGLE_API_KEY' = ResolveKey(secrets, environ)
    /\ pc' = "configure"
    /\ UNCHANGED << secrets, environ, configured, uploaded_files, pos,
                    uploaded_file, spinner, text, pdf_pages, pdf_text,
                    analyze_arg, prompt, response, analysis, ui, file_doc,
                    answered, started, completed, extractions, analyze_calls,
                    remote_calls, extract_error, call_outcome >>

\* Lines 20-24.
Configure ==
    /\ pc = "configure"
    /\ IF KeyTruthy(GOOGLE_API_KEY)
       THEN /\ configured' = TRUE
            /\ ui' = ui
       ELSE /\ configured' = configured
            /\ ui' = Append(ui, Event(0, "warning", << "Google API Key not found." >>))
    /\ pc' = "loop"
    /\ UNCHANGED << secrets, environ, GOOGLE_API_KEY, uploaded_files, pos,
                    uploaded_file, spinner, text, pdf_pages, pdf_text,
                    analyze_arg, prompt, response, analysis, file_doc,
                    answered, started, completed, extractions, analyze_calls,
                    remote_calls, extract_error, call_outcome >>

\* ------------------------------------------------------------ the for loop
\* Lines 139-143: the next file is taken, its header is written and the
\* spinner is entered.
BeginDoc ==
    /\ pc = "loop"
    /\ pos < Len(uploaded_files)
    /\ pos' = pos + 1
    /\ uploaded_file' = IterItem(uploaded_files, pos + 1)
    /\ ui' = Append(ui, Event(uploaded_file', "subheader", << "Analysis for:" >>))
    /\ spinner' = spinner \cup {uploaded_file'}
    /\ started' = started \cup {uploaded_file'}
    /\ pc' = "extract"
    /\ UNCHANGED << secrets, environ, GOOGLE_API_KEY, configured,
                    uploaded_files, text, pdf_pages, pdf_text, analyze_arg,
                    prompt, response, analysis, file_doc, answered,
                    completed, extractions, analyze_calls, remote_calls,
                    extract_error, call_outcome >>

\* Lines 145, 88-92 and 95-97: extract_text_from_pdf is called; text = "",
\* the bytes are read and parsed. A parse error is caught, reported with
\* st.error, and text is returned.
ExtractOpen ==
    /\ pc = "extract"
    /\ extractions' = Bump(extractions, uploaded_file)
    /\ \E doc \in Docs :
        /\ file_doc' = doc
        /\ IF doc.parseable
           THEN /\ text' = <<>>
                /\ pdf_pages' = doc.pages
                /\ pc' = "pages"
                /\ UNCHANGED << ui, pdf_text, extract_error >>
           ELSE /\ ui' = Append(ui, Event(uploaded_file, "error", ReadErrorMessage(ParseCause)))
                /\ extract_error' = [extract_error EXCEPT ![uploaded_file] = ParseCause]
                /\ pdf_text' = AssignPdfText(pdf_text, <<>>)
                /\ pc' = "check"
                /\ UNCHANGED << text, pdf_pages >>
    /\ UNCHANGED << secrets, environ, GOOGLE_API_KEY, configured,
                    uploaded_files, pos, uploaded_file, spinner, analyze_arg,
                    prompt, response, analysis, answered, started, completed,
                    analyze_calls, remote_calls, call_outcome >>

\* Lines 93-97: one iteration of the page loop. extract_text() returns the
\* page's text, which is appended, or raises; the exception is caught,
\* reported with st.error, and the text accumulated so far is returned.
ExtractPage ==
    /\ pc = "pages"
    /\ pdf_pages # <<>>
    /\ IF Head(pdf_pages).raises
       THEN /\ ui' = Append(ui, Event(uploaded_file, "error", ReadErrorMessage(PageCause)))
            /\ extract_error' = [extract_error EXCEPT ![uploaded_file] = PageCause]
            /\ pdf_text' = AssignPdfText(pdf_text, text)
            /\ text' = <<>>
            /\ pdf_pages' = <<>>
            /\ pc' = "check"
       ELSE /\ text' = text \o Head(pdf_pages).text
            /\ pdf_pages' = Tail(pdf_pages)
            /\ UNCHANGED << ui, extract_error, pdf_text, pc >>
    /\ UNCHANGED << secrets, environ, GOOGLE_API_KEY, configured,
                    uploaded_files, pos, uploaded_file, spinner, analyze_arg,
                    prompt, response, analysis, file_doc, answered, started,
                    completed, extractions, analyze_calls, remote_calls,
                    call_outcome >>

\* Lines 93, 97 and 145: the page loop is exhausted and text is returned.
ExtractReturn ==
    /\ pc = "pages"
    /\ pdf_pages = <<>>
    /\ pdf_text' = AssignPdfText(pdf_text, text)
    /\ text' = <<>>
    /\ pc' = "check"
    /\ UNCHANGED << secrets, environ, GOOGLE_API_KEY, configured,
                    uploaded_files, pos, uploaded_file, spinner, pdf_pages,
                    analyze_arg, prompt, response, analysis, ui, file_doc,
                    answered, started, completed, extractions, analyze_calls,
                    remote_calls, extract_error, call_outcome >>

\* Lines 147 and 153-154: the blank check and its else branch.
CheckText ==
    /\ pc = "check"
    /\ IF HasText(pdf_text)
       THEN /\ pc' = "analyze"
            /\ ui' = ui
       ELSE /\ ui' = Append(ui, Event(uploaded_file, "warning", << "Could not extract text." >>))
            /\ pc' = "exit"
    /\ UNCHANGED << secrets, environ, GOOGLE_API_KEY, configured,
                    uploaded_files, pos, uploaded_file, spinner, text,
                    pdf_pages, pdf_text, analyze_arg, prompt, response,
                    analysis, file_doc, answered, started, completed,
                    extractions, analyze_calls, remote_calls, extract_error,
                    call_outcome >>

\* Lines 149 and 28: analyze_pdf_with_gemini is called with pdf_text.
AnalyzeCall ==
    /\ pc = "analyze"
    /\ analyze_arg' = pdf_text
    /\ analyze_calls' = Bump(analyze_calls, uploaded_file)
    /\ pc' = "key_check"
    /\ UNCHANGED << secrets, environ, GOOGLE_API_KEY, configured,
                    uploaded_files, pos, uploaded_file, spinner, text,
                    pdf_pages, pdf_text, prompt, response, analysis, ui,
                    file_doc, answered, started, completed, extractions,
                    remote_calls, extract_error, call_outcome >>

\* Lines 38-52: without a key the simulated response is returned.
KeyCheck ==
    /\ pc = "key_check"
    /\ IF Offline(GOOGLE_API_KEY)
       THEN /\ analysis' = Placeholder
            /\ analyze_arg' = <<>>
            /\ pc' = "display"
       ELSE /\ pc' = "construct"
            /\ UNCHANGED << analysis, analyze_arg >>
    /\ UNCHANGED << secrets, environ, GOOGLE_API_KEY, configured,
                    uploaded_files, pos, uploaded_file, spinner, text,
                    pdf_pages, pdf_text, prompt, response, ui, file_doc,
                    answered, started, completed, extractions, analyze_calls,
                    remote_calls, extract_error, call_outcome >>

\* Lines 54-71 and 74-75: the model object is constructed and the prompt is
\* built; an exception of the constructor is caught and becomes the result.
ConstructModel ==
    /\ pc = "construct"
    /\ \/ /\ prompt' = BuildPrompt(analyze_arg)
          /\ pc' = "generate"
          /\ UNCHANGED << analysis, analyze_arg, call_outcome >>
       \/ /\ analysis' = ErrorMessage(ConstructCause)
          /\ call_outcome' = [call_outcome EXCEPT ![uploaded_file] = ConstructCause]
          /\ analyze_arg' = <<>>
          /\ pc' = "display"
          /\ UNCHANGED prompt
    /\ UNCHANGED << secrets, environ, GOOGLE_API_KEY, configured,
                    uploaded_files, pos, uploaded_file, spinner, text,
                    pdf_pages, pdf_text, response, ui, file_doc, answered,
                    started, completed, extractions, analyze_calls,
                    remote_calls, extract_error >>

\* Variant of GenerateContent that calls again when the call raises.
GenerateContentRetrying ==
    /\ pc = "generate"
    /\ remote_calls' = Bump(remote_calls, uploaded_file)
    /\ \/ \E r \in Responses :
            /\ response' = r
            /\ pc' = "response_text"
            /\ UNCHANGED << analysis, analyze_arg, prompt, call_outcome >>
       \/ \E c \in CallCauses :
            /\ pc' = "generate"
            /\ UNCHANGED << response, analysis, analyze_arg, prompt, call_outcome >>
    /\ UNCHANGED << secrets, environ, GOOGLE_API_KEY, configured,
                    uploaded_files, pos, uploaded_file, spinner, text,
                    pdf_pages, pdf_text, ui, file_doc, answered, started,
                    completed, extractions, analyze_calls, extract_error >>

\* Lines 72 and 74-75: the remote call. It answers, or raises (transport,
\* authentication, quota); the exception is caught and becomes the result.
GenerateContent ==
    /\ pc = "generate"
    /\ remote_calls' = Bump(remote_calls, uploaded_file)
    /\ \/ \E r \in Responses :
            /\ response' = r
            /\ pc' = "response_text"
            /\ UNCHANGED << analysis, analyze_arg, prompt, call_outcome >>
       \/ \E c \in CallCauses :
            /\ analysis' = ErrorMessage(c)
            /\ call_outcome' = [call_outcome EXCEPT ![uploaded_file] = c]
            /\ analyze_arg' = <<>>
            /\ prompt' = <<>>
            /\ pc' = "display"
            /\ UNCHANGED response
    /\ UNCHANGED << secrets, environ, GOOGLE_API_KEY, configured,
                    uploaded_files, pos, uploaded_file, spinner, text,
                    pdf_pages, pdf_text, ui, file_doc, answered, started,
                    completed, extractions, analyze_calls, extract_error >>

\* Lines 73-75: response.text is returned, or reading it raises and the
\* exception is caught and becomes the result.
ResponseText ==
    /\ pc = "response_text"
    /\ IF response.blocked
       THEN /\ analysis' = ErrorMessage(BlockedCause)
            /\ call_outcome' = [call_outcome EXCEPT ![uploaded_file] = BlockedCause]
            /\ answered' = answered
       ELSE /\ analysis' = response.text
            /\ call_outcome' = [call_outcome EXCEPT ![uploaded_file] = "success"]
            /\ answered' = response.text
    /\ analyze_arg' = <<>>
    /\ prompt' = <<>>
    /\ response' = NoResponse
    /\ pc' = "display"
    /\ UNCHANGED << secrets, environ, GOOGLE_API_KEY, configured,
                    uploaded_files, pos, uploaded_file, spinner, text,
                    pdf_pages, pdf_text, ui, file_doc, started, completed,
                    extractions, analyze_calls, remote_calls, extract_error >>

\* Line 152.
Display ==
    /\ pc = "display"
    /\ ui' = Append(ui, Event(uploaded_file, "markdown", analysis))
    /\ pc' = "exit"
    /\ UNCHANGED << secrets, environ, GOOGLE_API_KEY, configured,
                    uploaded_files, pos, uploaded_file, spinner, text,
                    pdf_pages, pdf_text, analyze_arg, prompt, response,
                    analysis, file_doc, answered, started, completed,
                    extractions, analyze_calls, remote_calls, extract_error,
                    call_outcome >>

\* Line 143: the with block is left and the spinner released.
ExitSpinner ==
    /\ pc = "exit"
    /\ spinner' = SpinnerExit(spinner, uploaded_file)
    /\ completed' = completed \cup {uploaded_file}
    /\ file_doc' = NoDoc
    /\ answered' = <<>>
    /\ pc' = "loop"
    /\ UNCHANGED << secrets, environ, GOOGLE_API_KEY, configured,
                    uploaded_files, pos, uploaded_file, text, pdf_pages,
                    pdf_text, analyze_arg, prompt, response, analysis, ui,
                    started, extractions, analyze_calls, remote_calls,
                    extract_error, call_outcome >>

\* Lines 138-139 and 155-156: the loop is exhausted; with no files and no
\* key the hint of line 156 is shown.
Finish ==
    /\ pc = "loop"
    /\ pos = Len(uploaded_files)
    /\ IF uploaded_files = <<>> /\ ~KeyTruthy(GOOGLE_API_KEY)
       THEN ui' = Append(ui, Event(0, "info", << "Please add your Google API Key." >>))
       ELSE ui' = ui
    /\ pc' = "done"
    /\ UNCHANGED << secrets, environ, GOOGLE_API_KEY, configured,
                    uploaded_files, pos, uploaded_file, spinner, text,
                    pdf_pages, pdf_text, analyze_arg, prompt, response,
                    analysis, file_doc, answered, started, completed,
                    extractions, analyze_calls, remote_calls, extract_error,
                    call_outcome >>

Next ==
    \/ ResolveCredential
    \/ Configure
    \/ BeginDoc
    \/ ExtractOpen
    \/ ExtractPage
    \/ ExtractReturn
    \/ CheckText
    \/ AnalyzeCall
    \/ KeyCheck
    \/ ConstructModel
    \/ GenerateContent
    \/ ResponseText
    \/ Display
    \/ ExitSpinner
    \/ Finish

Spec ==
    Init /\ [][Next]_vars

\* ------------------------------------------------- vocabulary of the claims
\* The kinds of the events rendered for file f.
KindsOf(f) ==
    { ui[k].kind : k \in { j \in DOMAIN ui : ui[j].doc = f } }

\* The events rendered for file f, in order.
EventsOf(f) ==
    SelectSeq(ui, LAMBDA e : e.doc = f)

\* The texts rendered with st.markdown for file f.
MarkdownOf(f) ==
    { ui[k].text : k \in { j \in DOMAIN ui : ui[j].doc = f /\ ui[j].kind = "markdown" } }

\* The outcomes the user is shown for file f: st.error of line 96 is
\* ExtractionFailed, st.warning of line 154 is EmptyContent, st.markdown of
\* line 152 is Analyzed.
OutcomesOf(f) ==
    (IF "error" \in KindsOf(f) THEN {"ExtractionFailed"} ELSE {})
    \cup (IF "warning" \in KindsOf(f) THEN {"EmptyContent"} ELSE {})
    \cup (IF "markdown" \in KindsOf(f) THEN {"Analyzed"} ELSE {})

Contains(t, tok) ==
    \E k \in DOMAIN t : t[k] = tok

CallFailed(f) ==
    call_outcome[f] \notin {None, "success"}

\* The current file's iteration has passed the blank check and its branch,
\* and the with block is about to be left.
Settled ==
    /\ uploaded_file \in Files
    /\ pc = "exit"

\* The script is inside analyze_pdf_with_gemini.
InAnalyze ==
    pc \in {"key_check", "construct", "generate", "response_text"}

\* The text of a parsed document's pages in page order, up to the first page
\* whose extraction raises.
RECURSIVE TextOfPages(_)
TextOfPages(pages) ==
    IF pages = <<>> THEN <<>>
    ELSE IF Head(pages).raises THEN <<>>
    ELSE Head(pages).text \o TextOfPages(Tail(pages))

\* Whether extraction of the document raises.
Raises(doc) ==
    \/ ~doc.parseable
    \/ \E k \in DOMAIN doc.pages : doc.pages[k].raises

\* What is rendered for a file that is uploaded alone, given what its bytes
\* hold, the key, and how the remote call (if any) ends.
AloneEvents(f, doc, key, outcome, answer) ==
    << Event(f, "subheader", << "Analysis for:" >>) >>
    \o (IF ~doc.parseable
        THEN << Event(f, "error", ReadErrorMessage(ParseCause)) >>
        ELSE IF Raises(doc)
        THEN << Event(f, "error", ReadErrorMessage(PageCause)) >>
        ELSE <<>>)
    \o (IF Len(Strip(TextOfPages(doc.pages))) = 0
        THEN << Event(f, "warning", << "Could not extract text." >>) >>
        ELSE IF key = ""
        THEN << Event(f, "markdown", Placeholder) >>
        ELSE IF outcome = "success"
        THEN << Event(f, "markdown", answer) >>
        ELSE << Event(f, "markdown", << ErrorPrefix, outcome >>) >>)

\* ------------------------------------------------------------------ claims
\* C1: every file whose iteration has ended was shown exactly one outcome
\* out of Analyzed, EmptyContent, ExtractionFailed.
C1_ExactlyOneOutcome ==
    \A f \in completed : Cardinality(OutcomesOf(f)) = 1

\* C2: when extraction of a file raised, the file's outcome is
\* ExtractionFailed alone, no text is handed to the caller, and neither the
\* empty-content warning nor analyze nor a remote call happens for it.
C2_ExtractionErrorStopsPipeline ==
    \A f \in Files :
        extract_error[f] # None =>
            /\ (f = uploaded_file /\ pc = "check" => pdf_text = <<>>)
            /\ "warning" \notin KindsOf(f)
            /\ "markdown" \notin KindsOf(f)
            /\ analyze_calls[f] = 0
            /\ remote_calls[f] = 0

\* C3: for a file whose extraction succeeded, the empty-content warning is
\* shown exactly when the extracted text is empty after strip(); then analyze
\* is not called; otherwise analyze is called once, with the full extracted
\* text, and its result is rendered.
C3_BlankIffEmptyContent ==
    LET f == uploaded_file
        full == TextOfPages(file_doc.pages)
    IN  /\ (Settled /\ extract_error[f] = None) =>
              /\ ("warning" \in KindsOf(f)) <=> (Strip(full) = <<>>)
              /\ Strip(full) = <<>> =>
                    /\ analyze_calls[f] = 0
                    /\ OutcomesOf(f) = {"EmptyContent"}
              /\ Strip(full) # <<>> =>
                    /\ analyze_calls[f] = 1
                    /\ OutcomesOf(f) = {"Analyzed"}
        /\ (InAnalyze /\ extract_error[f] = None) =>
              /\ Strip(full) # <<>>
              /\ analyze_arg = full

\* A blank file was warned about and analyze is running for the next file,
\* whose text has leading white space, with that white space kept.
C3_Witness ==
    /\ pc = "response_text"
    /\ uploaded_file = 2
    /\ extract_error[1] = None /\ OutcomesOf(1) = {"EmptyContent"}
    /\ extract_error[2] = None
    /\ analyze_arg = << " ", "a" >>

\* C4: with no key resolved, every analyze call returns the same placeholder,
\* which holds both section titles, and no remote call is made.
C4_OfflinePlaceholder ==
    (pc # "start" /\ GOOGLE_API_KEY = "") =>
        /\ ~configured
        /\ pc \notin {"construct", "generate", "response_text"}
        /\ prompt = <<>>
        /\ \A f \in Files : remote_calls[f] = 0 /\ call_outcome[f] = None
        /\ \A k \in DOMAIN ui : ui[k].kind = "markdown" => ui[k].text = Placeholder
        /\ pc = "display" => analysis = Placeholder
        /\ Contains(Placeholder, "Executive Summary")
        /\ Contains(Placeholder, "In-depth Analysis")

\* Without a key, two files with different texts were both analyzed.
C4_Witness ==
    /\ pc = "done"
    /\ GOOGLE_API_KEY = ""
    /\ Len(uploaded_files) = 2
    /\ \A f \in Files : analyze_calls[f] = 1 /\ MarkdownOf(f) = {Placeholder}
    /\ pdf_text = << "a", " " >>
    /\ extract_error[1] # None

C6_NoRetry ==
    \A f \in Files :
        /\ extractions[f] <= 1
        /\ remote_calls[f] <= 1
        /\ analyze_calls[f] <= 1
        /\ f \in completed => extractions[f] = 1

\* One file's extraction failed and another file's remote call failed; each
\* was tried once.
C6_Witness ==
    /\ pc = "done"
    /\ \E f \in Files : extract_error[f] # None /\ extractions[f] = 1
    /\ \E g \in Files : call_outcome[g] \in CallCauses /\ remote_calls[g] = 1

\* C7: files are processed one at a time in input order: a file is begun
\* only when all files before it have ended, and what is rendered is in
\* input order.
C7_OneAtATimeInOrder ==
    /\ \A f \in started : \A g \in Files : g < f => g \in completed
    /\ \A f \in Files : extractions[f] > 0 => f \in started
    /\ Cardinality(started \ completed) <= 1
    /\ started \ completed \subseteq {uploaded_file}
    /\ \A k \in DOMAIN ui : \A j \in DOMAIN ui : k < j => ui[k].doc <= ui[j].doc

\* The second file is being extracted after the first ended in an analysis
\* failure.
C7_Witness ==
    /\ pc = "pages"
    /\ uploaded_file = 2
    /\ CallFailed(1)
    /\ 1 \in completed

\* C8: what is rendered for a file, and the text analyzed for it, are what
\* they would be if the file were uploaded alone, whatever came before; and
\* every file of the batch is processed.
C8_Independent ==
    /\ Settled =>
          EventsOf(uploaded_file) =
              AloneEvents(uploaded_file, file_doc, GOOGLE_API_KEY,
                          call_outcome[uploaded_file], answered)
    /\ InAnalyze => analyze_arg = TextOfPages(file_doc.pages)
    /\ pc \in {"generate", "response_text"} =>
          prompt = BuildPrompt(TextOfPages(file_doc.pages))
    /\ pc = "done" => completed = Files

\* After a corrupt first file, whose extraction failed after a page of text,
\* the second file was analyzed.
C8_Witness ==
    /\ pc = "exit"
    /\ uploaded_file = 2
    /\ extract_error[1] = PageCause /\ "markdown" \in KindsOf(1)
    /\ extract_error[2] = None
    /\ pdf_text = << "a" >>
    /\ call_outcome[2] = "success"

\* C9 as stated: the key is the secrets store's, else the environment's,
\* else absent.
C9_SecretsThenEnvironment ==
    pc # "start" =>
        GOOGLE_API_KEY = (IF secrets # Absent THEN secrets
                          ELSE IF environ # Absent THEN environ
                          ELSE "")

\* C10: the spinner is entered when a file's iteration begins and left on
\* every path out of it: at most one is active, none between files, none at
\* the end.
C10_SpinnerScoped ==
    /\ Cardinality(spinner) <= 1
    /\ pc \in {"start", "configure", "loop", "done"} => spinner = {}
    /\ pc \in {"extract", "pages", "check", "analyze", "key_check", "construct",
               "generate", "response_text", "display", "exit"} =>
          spinner = {uploaded_file}

\* The batch ended after an extraction failure and an analysis failure, and
\* no spinner is active.
C10_Witness ==
    /\ pc = "done"
    /\ spinner = {}
    /\ \E f \in Files : extract_error[f] # None /\ OutcomesOf(f) = {"ExtractionFailed", "EmptyContent"}
    /\ \E g \in Files : CallFailed(g)

====
